---- MODULE Spec2Model ----
(***************************************************************************)
(* BookingPage (src/unnamed/part_000, lines 184-519): the public booking   *)
(* form of a dentist.  The component's useState cells are the variables,   *)
(* every event handler / promise continuation is one action, and the       *)
(* three api calls (getDentist, getAvailableSlots, bookAppointment) are    *)
(* requests in flight that the environment answers in any order, with      *)
(* success or with an error.                                               *)
(*                                                                         *)
(* PatientsPage (src/src/pages/dashboard/PatientsPage.tsx): the patient    *)
(* list of the dashboard with its search box, and getNextAppointment, the  *)
(* function that picks the appointment shown in a patient's row.           *)
(***************************************************************************)
EXTENDS Integers, Sequences, FiniteSets, Bags, TLC

VARIABLES
    id,              \* useParams().id, the route's dentist id
    mounted,         \* the component is mounted (the page has not been left)
    now,             \* the clock: what new Date() returns
    dentist,         \* useState<Dentist | null>(null)
    selectedDate,    \* useState<Date | undefined>(new Date())
    selectedTime,    \* useState<string>('')
    selectedService, \* useState<string>('')
    availableSlots,  \* useState<string[]>([])
    isLoading,       \* useState(true)
    isBooking,       \* useState(false)
    showSuccess,     \* useState(false)
    patientName,     \* useState('')
    patientPhone,    \* useState('')
    patientEmail,    \* useState('')
    notes,           \* useState('')
    lastToast,       \* the message of the last toast.error / toast.success
    dentistReqs,     \* bag of api.getDentist(id) calls not yet answered
    slotReqs,        \* bag of api.getAvailableSlots(dentistId, date) calls not yet answered
    bookReqs,        \* sequence of api.bookAppointment(payload) calls not yet answered
    slotsFor,        \* the arguments of the call whose answer availableSlots holds
    \* PatientsPage
    authDentist,       \* useAuth().dentist
    patients,          \* useState<Patient[]>([])
    filteredPatients,  \* useState<Patient[]>([])
    searchQuery,       \* useState('')
    patientsIsLoading, \* useState(true), PatientsPage's isLoading
    patientReqs,       \* number of api.getPatients calls not yet answered
    patient,           \* the patient of the table row being rendered
    nextApt            \* what getNextAppointment(patient) returned for that row

\* the state of PatientsPage
PatientsCells ==
    <<authDentist, patients, filteredPatients, searchQuery, patientsIsLoading,
      patientReqs, patient, nextApt>>

vars == <<id, now, mounted, dentist, selectedDate, selectedTime, selectedService,
          availableSlots, isLoading, isBooking, showSuccess, patientName,
          patientPhone, patientEmail, notes, lastToast, dentistReqs,
          slotReqs, bookReqs, slotsFor, PatientsCells>>

----------------------------------------------------------------------------
(* Bounds of the model *)

\* the calendar offers the days 0 .. MaxDay
MaxDay == 2
\* at most this many getAvailableSlots calls are outstanding at once
MaxPendingSlots == 2
\* at most this many getDentist calls are outstanding at once
MaxPendingDentists == 2
\* api.getPatients resolves to at most this many patients
MaxPatients == 2
\* the search box holds at most this many characters
MaxQueryLen == 2
\* a patient has at most this many appointments
MaxApts == 3

----------------------------------------------------------------------------
(* Values *)

\* the calendar day on which the page is opened
Today == 1

\* JavaScript null / undefined, and a present value
Null == "null"
Undefined == <<>>
Some(v) == <<v>>

\* a Date: a calendar day and a time of day; a calendar cell is midnight
DateOf(day, tod) == [day |-> day, tod |-> tod]
CalendarDays == {DateOf(d, 0) : d \in 0..MaxDay}
\* the page is opened during the day, after midnight (time of day 0)
NowValues == {DateOf(Today, 1)}

\* a.getTime() < b.getTime()
Before(a, b) == a.day < b.day \/ (a.day = b.day /\ a.tod < b.tod)
\* react-day-picker's isSameDay
SameDay(a, b) == a.day = b.day

NoId == "undefined"
DentistIds == {"d1"}
RouteIds == DentistIds \cup {NoId}
\* another dentist, whose booking page the visitor may navigate to
OtherDentistIds == {"d2"}

\* Dentist.services of the dentist with this id
Services(d) ==
    IF d = "d1" THEN <<[id |-> "s1", name |-> "Cleaning"]>>
    ELSE IF d = "d2" THEN <<[id |-> "s2", name |-> "Whitening"]>>
    ELSE <<>>

Range(s) == {s[i] : i \in 1..Len(s)}

\* what api.getAvailableSlots may resolve to: "HH:MM" strings, ascending, no duplicates
SlotLists == {<<>>, <<"09:00">>, <<"09:00", "09:30">>}

\* what the user may type
Names == {"", "Amina"}
\* whitespace typed into the name input
BlankNames == {" "}
Phones == {"", "0600000000"}
Emails == {"", "a@b.ma"}
NotesValues == {"", "urgent"}

\* Falsy as v == null would decide it: the empty string counts as present
FalsyNullOnly(v) == v = Null

\* JavaScript's !v for a string
Falsy(v) == v = ""

\* The toasts
ToastNone == ""
ToastDentistError == "Erreur lors du chargement des informations"
ToastSlotsError == "Erreur lors du chargement des creneaux"
ToastRequired == "Veuillez remplir tous les champs obligatoires"
ToastBooked == "Rendez-vous reserve avec succes!"
ToastBookingError == "Erreur lors de la reservation"
ToastPatientsError == "Erreur lors du chargement des patients"

----------------------------------------------------------------------------
(* The Draft, the gate and what is rendered *)

\* the state cells the form edits
Draft ==
    [dentist |-> dentist, selectedService |-> selectedService,
     selectedDate |-> selectedDate, selectedTime |-> selectedTime,
     patientName |-> patientName, patientPhone |-> patientPhone,
     patientEmail |-> patientEmail, notes |-> notes]

\* the early return of handleBooking (line 235), on a draft
GuardRejects(d) ==
    \/ d.dentist = Null
    \/ d.selectedDate = Undefined
    \/ Falsy(d.selectedTime)
    \/ Falsy(d.selectedService)
    \/ Falsy(d.patientName)
    \/ Falsy(d.patientPhone)

\* ButtonDisabled without the !patientPhone term
ButtonDisabledNoPhone(booking, d) ==
    \/ booking
    \/ d.selectedDate = Undefined
    \/ Falsy(d.selectedTime)
    \/ Falsy(d.selectedService)
    \/ Falsy(d.patientName)

\* ButtonDisabled without the isBooking term
ButtonDisabledNoBooking(booking, d) ==
    \/ d.selectedDate = Undefined
    \/ Falsy(d.selectedTime)
    \/ Falsy(d.selectedService)
    \/ Falsy(d.patientName)
    \/ Falsy(d.patientPhone)

\* the disabled attribute of the submit button (line 444), on a draft
ButtonDisabled(booking, d) ==
    \/ booking
    \/ d.selectedDate = Undefined
    \/ Falsy(d.selectedTime)
    \/ Falsy(d.selectedService)
    \/ Falsy(d.patientName)
    \/ Falsy(d.patientPhone)

\* FormRendered without the not-found screen (lines 270-276)
FormRenderedWithoutDentist == mounted /\ ~isLoading

\* the form is rendered: neither the loading nor the not-found screen (lines 262-276)
FormRendered == mounted /\ ~isLoading /\ dentist # Null

\* the "Aucun creneau disponible pour cette date" message is on screen (lines 382-386)
NoSlotsMessage == FormRendered /\ selectedDate # Undefined /\ Len(availableSlots) = 0

\* the user can reach the form: it is rendered and the modal success dialog is closed
Interactive == FormRendered /\ ~showSuccess

\* the argument of api.bookAppointment (lines 242-251)
Payload ==
    [dentistId |-> dentist,
     serviceId |-> selectedService,
     date |-> selectedDate[1],
     time |-> selectedTime,
     patientName |-> patientName,
     patientPhone |-> patientPhone,
     patientEmail |-> IF Falsy(patientEmail) THEN Undefined ELSE Some(patientEmail),
     notes |-> IF Falsy(notes) THEN Undefined ELSE Some(notes)]

\* dentist.services.find(s => s.id === selectedService) (line 278)
selectedServiceData ==
    LET hits == {i \in 1..Len(Services(dentist)) : Services(dentist)[i].id = selectedService}
    IN IF hits = {} THEN Undefined
       ELSE Some(Services(dentist)[CHOOSE i \in hits : \A j \in hits : i <= j])

\* what the success dialog shows (lines 509-512): date, time, service name, patient
Summary ==
    [date |-> selectedDate,
     time |-> selectedTime,
     service |-> IF selectedServiceData = Undefined THEN Undefined
                 ELSE Some(selectedServiceData[1].name),
     patient |-> patientName]

----------------------------------------------------------------------------
(* Initial state: the first render, and the effects of the mount *)

\* a patient without appointments
NoAppointments == [id |-> "p0", appointments |-> <<>>]

\* PatientsPage is not open
PatientsClosed ==
    /\ authDentist = Null
    /\ patients = <<>>
    /\ filteredPatients = <<>>
    /\ searchQuery = <<>>
    /\ patientsIsLoading = TRUE
    /\ patientReqs = 0
    /\ patient = NoAppointments
    /\ nextApt = Undefined

Init ==
    /\ PatientsClosed
    /\ id \in RouteIds
    /\ now \in NowValues
    /\ mounted = TRUE
    /\ dentist = Null
    /\ selectedDate = Some(now)
    /\ selectedTime = ""
    /\ selectedService = ""
    /\ availableSlots = <<>>
    /\ isLoading = TRUE
    /\ isBooking = FALSE
    /\ showSuccess = FALSE
    /\ patientName = ""
    /\ patientPhone = ""
    /\ patientEmail = ""
    /\ notes = ""
    /\ lastToast = ToastNone
    \* loadDentist: if (!id) return; else the call is issued
    /\ dentistReqs = IF id = NoId THEN EmptyBag ELSE SetToBag({id})
    \* the slot effect finds dentist null and does nothing
    /\ slotReqs = EmptyBag
    /\ bookReqs = <<>>
    /\ slotsFor = Undefined

----------------------------------------------------------------------------
(* The effects *)

\* a getAvailableSlots call and the arguments it was made with
SlotRequest(d, date) == [dentistId |-> d, date |-> date]

\* the slot effect (lines 205-209) with loadAvailableSlots up to its await
\* (lines 223-226), run after a render in which selectedDate or dentist changed
SlotEffect(d, date) ==
    IF date # Undefined /\ d # Null
    THEN slotReqs (+) SetToBag({SlotRequest(d, date[1])})
    ELSE slotReqs

\* s without its i-th element
RemoveAt(s, i) == SubSeq(s, 1, i - 1) \o SubSeq(s, i + 1, Len(s))

----------------------------------------------------------------------------
(* loadDentist after its await (lines 214-220) *)

DentistLoaded(r) ==
    /\ mounted
    /\ BagIn(r, dentistReqs)
    /\ dentistReqs' = dentistReqs (-) SetToBag({r})
    /\ dentist' = r
    /\ isLoading' = FALSE
    /\ slotReqs' = SlotEffect(r, selectedDate)
    /\ UNCHANGED <<PatientsCells, id, now, mounted, selectedDate, selectedTime, selectedService,
                   availableSlots, isBooking, showSuccess, patientName,
                   patientPhone, patientEmail, notes, lastToast, bookReqs,
                   slotsFor>>

DentistFailed(r) ==
    /\ mounted
    /\ BagIn(r, dentistReqs)
    /\ dentistReqs' = dentistReqs (-) SetToBag({r})
    /\ lastToast' = ToastDentistError
    /\ isLoading' = FALSE
    /\ UNCHANGED <<PatientsCells, id, now, mounted, dentist, selectedDate, selectedTime,
                   selectedService, availableSlots, isBooking, showSuccess,
                   patientName, patientPhone, patientEmail, notes, slotReqs,
                   bookReqs, slotsFor>>

----------------------------------------------------------------------------
(* loadAvailableSlots after its await (lines 226-231) *)

\* SlotsLoaded without setSelectedTime('')
SlotsLoadedKeepsTime(r, slots) ==
    /\ mounted
    /\ BagIn(r, slotReqs)
    /\ slotReqs' = slotReqs (-) SetToBag({r})
    /\ availableSlots' = slots
    /\ slotsFor' = Some(r)
    /\ UNCHANGED <<PatientsCells, id, now, mounted, dentist, selectedDate, selectedTime,
                   selectedService, isLoading, isBooking, showSuccess,
                   patientName, patientPhone, patientEmail, notes, lastToast,
                   dentistReqs, bookReqs>>

SlotsLoaded(r, slots) ==
    /\ mounted
    /\ BagIn(r, slotReqs)
    /\ slotReqs' = slotReqs (-) SetToBag({r})
    /\ availableSlots' = slots
    /\ selectedTime' = ""
    /\ slotsFor' = Some(r)
    /\ UNCHANGED <<PatientsCells, id, now, mounted, dentist, selectedDate, selectedService, isLoading,
                   isBooking, showSuccess, patientName, patientPhone,
                   patientEmail, notes, lastToast, dentistReqs, bookReqs>>

SlotsFailed(r) ==
    /\ mounted
    /\ BagIn(r, slotReqs)
    /\ slotReqs' = slotReqs (-) SetToBag({r})
    /\ lastToast' = ToastSlotsError
    /\ UNCHANGED <<PatientsCells, id, now, mounted, dentist, selectedDate, selectedTime,
                   selectedService, availableSlots, isLoading, isBooking,
                   showSuccess, patientName, patientPhone, patientEmail,
                   notes, dentistReqs, bookReqs, slotsFor>>

----------------------------------------------------------------------------
(* The form *)

\* DayDisabled with the comparison the wrong way round: date > new Date()
DayDisabledInverted(date) == Before(now, date)

\* the Calendar's disabled predicate (line 354): date < new Date()
DayDisabled(date) == Before(date, now)

\* Calendar onSelect (lines 350-356): a click on an enabled day selects it, a
\* click on the selected day unselects it; then the slot effect runs
SelectDate(date) ==
    /\ Interactive
    /\ ~DayDisabled(date)
    /\ BagCardinality(slotReqs) < MaxPendingSlots
    /\ selectedDate' = IF selectedDate # Undefined /\ SameDay(selectedDate[1], date)
                       THEN Undefined
                       ELSE Some(date)
    /\ slotReqs' = SlotEffect(dentist, selectedDate')
    /\ UNCHANGED <<PatientsCells, id, now, mounted, dentist, selectedTime, selectedService,
                   availableSlots, isLoading, isBooking, showSuccess,
                   patientName, patientPhone, patientEmail, notes, lastToast,
                   dentistReqs, bookReqs, slotsFor>>

\* the slot buttons (lines 360-380)
SelectTime(slot) ==
    /\ Interactive
    /\ selectedDate # Undefined
    /\ Len(availableSlots) > 0
    /\ slot \in Range(availableSlots)
    /\ selectedTime' = slot
    /\ UNCHANGED <<PatientsCells, id, now, mounted, dentist, selectedDate, selectedService,
                   availableSlots, isLoading, isBooking, showSuccess,
                   patientName, patientPhone, patientEmail, notes, lastToast,
                   dentistReqs, slotReqs, bookReqs, slotsFor>>

\* SelectService with selectedService among the slot effect's dependencies
SelectServiceRefetches(s) ==
    /\ Interactive
    /\ s \in {Services(dentist)[i].id : i \in 1..Len(Services(dentist))}
    /\ selectedService' = s
    /\ slotReqs' = SlotEffect(dentist, selectedDate)
    /\ UNCHANGED <<PatientsCells, id, now, mounted, dentist, selectedDate, selectedTime,
                   availableSlots, isLoading, isBooking, showSuccess,
                   patientName, patientPhone, patientEmail, notes, lastToast,
                   dentistReqs, bookReqs, slotsFor>>

\* the service Select (lines 333-344)
SelectService(s) ==
    /\ Interactive
    /\ s \in {Services(dentist)[i].id : i \in 1..Len(Services(dentist))}
    /\ selectedService' = s
    /\ UNCHANGED <<PatientsCells, id, now, mounted, dentist, selectedDate, selectedTime,
                   availableSlots, isLoading, isBooking, showSuccess,
                   patientName, patientPhone, patientEmail, notes, lastToast,
                   dentistReqs, slotReqs, bookReqs, slotsFor>>

\* the four inputs (lines 394-438)
SetPatientName(v) ==
    /\ Interactive
    /\ patientName' = v
    /\ UNCHANGED <<PatientsCells, id, now, mounted, dentist, selectedDate, selectedTime,
                   selectedService, availableSlots, isLoading, isBooking,
                   showSuccess, patientPhone, patientEmail, notes, lastToast,
                   dentistReqs, slotReqs, bookReqs, slotsFor>>

SetPatientPhone(v) ==
    /\ Interactive
    /\ patientPhone' = v
    /\ UNCHANGED <<PatientsCells, id, now, mounted, dentist, selectedDate, selectedTime,
                   selectedService, availableSlots, isLoading, isBooking,
                   showSuccess, patientName, patientEmail, notes, lastToast,
                   dentistReqs, slotReqs, bookReqs, slotsFor>>

SetPatientEmail(v) ==
    /\ Interactive
    /\ patientEmail' = v
    /\ UNCHANGED <<PatientsCells, id, now, mounted, dentist, selectedDate, selectedTime,
                   selectedService, availableSlots, isLoading, isBooking,
                   showSuccess, patientName, patientPhone, notes, lastToast,
                   dentistReqs, slotReqs, bookReqs, slotsFor>>

SetNotes(v) ==
    /\ Interactive
    /\ notes' = v
    /\ UNCHANGED <<PatientsCells, id, now, mounted, dentist, selectedDate, selectedTime,
                   selectedService, availableSlots, isLoading, isBooking,
                   showSuccess, patientName, patientPhone, patientEmail,
                   lastToast, dentistReqs, slotReqs, bookReqs, slotsFor>>

----------------------------------------------------------------------------
(* Submission *)

\* handleBooking up to its await (lines 234-251)
handleBooking ==
    IF GuardRejects(Draft)
    THEN /\ lastToast' = ToastRequired
         /\ UNCHANGED <<isBooking, bookReqs>>
    ELSE /\ isBooking' = TRUE
         /\ bookReqs' = Append(bookReqs, Payload)
         /\ UNCHANGED lastToast

\* a click on the submit button (lines 442-448); a disabled button takes no click
ClickSubmit ==
    /\ Interactive
    /\ ~ButtonDisabled(isBooking, Draft)
    /\ handleBooking
    /\ UNCHANGED <<PatientsCells, id, now, mounted, dentist, selectedDate, selectedTime,
                   selectedService, availableSlots, isLoading, showSuccess,
                   patientName, patientPhone, patientEmail, notes,
                   dentistReqs, slotReqs, slotsFor>>

\* handleBooking after its await, the call resolved (lines 253-254, 258)
BookingSucceeded(i) ==
    /\ mounted
    /\ i \in 1..Len(bookReqs)
    /\ bookReqs' = RemoveAt(bookReqs, i)
    /\ showSuccess' = TRUE
    /\ lastToast' = ToastBooked
    /\ isBooking' = FALSE
    /\ UNCHANGED <<PatientsCells, id, now, mounted, dentist, selectedDate, selectedTime,
                   selectedService, availableSlots, isLoading, patientName,
                   patientPhone, patientEmail, notes, dentistReqs, slotReqs,
                   slotsFor>>

\* BookingFailed with the form reset in the catch block
BookingFailedResets(i) ==
    /\ mounted
    /\ i \in 1..Len(bookReqs)
    /\ bookReqs' = RemoveAt(bookReqs, i)
    /\ lastToast' = ToastBookingError
    /\ isBooking' = FALSE
    /\ selectedTime' = ""
    /\ patientName' = ""
    /\ patientPhone' = ""
    /\ UNCHANGED <<PatientsCells, id, now, mounted, dentist, selectedDate, selectedService,
                   availableSlots, isLoading, showSuccess, patientEmail,
                   notes, dentistReqs, slotReqs, slotsFor>>

\* BookingFailed without the finally block: isBooking is not reset
BookingFailedKeepsLock(i) ==
    /\ mounted
    /\ i \in 1..Len(bookReqs)
    /\ bookReqs' = RemoveAt(bookReqs, i)
    /\ lastToast' = ToastBookingError
    /\ UNCHANGED <<PatientsCells, id, now, mounted, dentist, selectedDate, selectedTime,
                   selectedService, availableSlots, isLoading, isBooking,
                   showSuccess, patientName, patientPhone, patientEmail,
                   notes, dentistReqs, slotReqs, slotsFor>>

\* handleBooking after its await, the call rejected (lines 255-258)
BookingFailed(i) ==
    /\ mounted
    /\ i \in 1..Len(bookReqs)
    /\ bookReqs' = RemoveAt(bookReqs, i)
    /\ lastToast' = ToastBookingError
    /\ isBooking' = FALSE
    /\ UNCHANGED <<PatientsCells, id, now, mounted, dentist, selectedDate, selectedTime,
                   selectedService, availableSlots, isLoading, showSuccess,
                   patientName, patientPhone, patientEmail, notes,
                   dentistReqs, slotReqs, slotsFor>>

\* the success Dialog's onOpenChange (line 494): Escape, the close button or a
\* click outside closes it
DismissSuccess ==
    /\ mounted
    /\ showSuccess
    /\ showSuccess' = FALSE
    /\ UNCHANGED <<PatientsCells, id, now, mounted, dentist, selectedDate, selectedTime,
                   selectedService, availableSlots, isLoading, isBooking,
                   patientName, patientPhone, patientEmail, notes, lastToast,
                   dentistReqs, slotReqs, bookReqs, slotsFor>>

----------------------------------------------------------------------------
Next ==
    \/ \E r \in DentistIds : DentistLoaded(r)
    \/ \E r \in DentistIds : DentistFailed(r)
    \/ \E r \in BagToSet(slotReqs), slots \in SlotLists : SlotsLoaded(r, slots)
    \/ \E r \in BagToSet(slotReqs) : SlotsFailed(r)
    \/ \E date \in CalendarDays : SelectDate(date)
    \/ \E slot \in Range(availableSlots) : SelectTime(slot)
    \/ \E d \in DentistIds : \E i \in 1..Len(Services(d)) : SelectService(Services(d)[i].id)
    \/ \E v \in Names : SetPatientName(v)
    \/ \E v \in Phones : SetPatientPhone(v)
    \/ \E v \in Emails : SetPatientEmail(v)
    \/ \E v \in NotesValues : SetNotes(v)
    \/ ClickSubmit
    \/ \E i \in 1..Len(bookReqs) : BookingSucceeded(i)
    \/ \E i \in 1..Len(bookReqs) : BookingFailed(i)
    \/ DismissSuccess

Spec == Init /\ [][Next]_vars

----------------------------------------------------------------------------
(* The page while it stays open, with every getDentist and bookAppointment  *)
(* call answered in the end, by a result or by an error                     *)

DentistAnswered == \E r \in DentistIds : DentistLoaded(r) \/ DentistFailed(r)

BookingAnswered ==
    \E i \in 1..Len(bookReqs) : BookingSucceeded(i) \/ BookingFailed(i)

SpecLive == Spec /\ WF_vars(DentistAnswered) /\ WF_vars(BookingAnswered)

----------------------------------------------------------------------------
(* Teardown.  No effect has a cleanup and no continuation checks whether    *)
(* the component is still mounted (lines 201-232, 240-259): a call          *)
(* answered after the page was left runs its continuation all the same.     *)
(* React drops a state update made to an unmounted component, so of the     *)
(* continuation only the toast takes effect.                                *)

\* the state cells of the component
Cells ==
    <<dentist, selectedDate, selectedTime, selectedService, availableSlots,
      isLoading, isBooking, showSuccess, patientName, patientPhone,
      patientEmail, notes>>

\* the user leaves the page
Unmount ==
    /\ mounted
    /\ mounted' = FALSE
    /\ UNCHANGED <<PatientsCells, id, now, Cells, lastToast, dentistReqs, slotReqs,
                   bookReqs, slotsFor>>

\* loadDentist after its await, the component gone (lines 214-220)
LateDentistAnswer(r, ok) ==
    /\ ~mounted
    /\ BagIn(r, dentistReqs)
    /\ dentistReqs' = dentistReqs (-) SetToBag({r})
    /\ lastToast' = IF ok THEN lastToast ELSE ToastDentistError
    /\ UNCHANGED <<PatientsCells, id, now, mounted, Cells, slotReqs, bookReqs, slotsFor>>

\* LateSlotsAnswer with the state updates taking effect after the unmount
LateSlotsAnswerApplied(r, ok, slots) ==
    /\ ~mounted
    /\ BagIn(r, slotReqs)
    /\ slotReqs' = slotReqs (-) SetToBag({r})
    /\ lastToast' = IF ok THEN lastToast ELSE ToastSlotsError
    /\ availableSlots' = IF ok THEN slots ELSE availableSlots
    /\ selectedTime' = IF ok THEN "" ELSE selectedTime
    /\ slotsFor' = IF ok THEN Some(r) ELSE slotsFor
    /\ UNCHANGED <<PatientsCells, id, now, mounted, dentist, selectedDate, selectedService,
                   isLoading, isBooking, showSuccess, patientName,
                   patientPhone, patientEmail, notes, dentistReqs, bookReqs>>

\* loadAvailableSlots after its await, the component gone (lines 226-231)
LateSlotsAnswer(r, ok, slots) ==
    /\ ~mounted
    /\ BagIn(r, slotReqs)
    /\ slotReqs' = slotReqs (-) SetToBag({r})
    /\ lastToast' = IF ok THEN lastToast ELSE ToastSlotsError
    /\ UNCHANGED <<PatientsCells, id, now, mounted, Cells, dentistReqs, bookReqs, slotsFor>>

\* handleBooking after its await, the component gone (lines 253-258)
LateBookingAnswer(i, ok) ==
    /\ ~mounted
    /\ i \in 1..Len(bookReqs)
    /\ bookReqs' = RemoveAt(bookReqs, i)
    /\ lastToast' = IF ok THEN ToastBooked ELSE ToastBookingError
    /\ UNCHANGED <<PatientsCells, id, now, mounted, Cells, dentistReqs, slotReqs, slotsFor>>

NextTeardown ==
    \/ Next
    \/ Unmount
    \/ \E r \in DentistIds, ok \in BOOLEAN : LateDentistAnswer(r, ok)
    \/ \E r \in BagToSet(slotReqs), ok \in BOOLEAN, slots \in SlotLists :
          LateSlotsAnswer(r, ok, slots)
    \/ \E i \in 1..Len(bookReqs), ok \in BOOLEAN : LateBookingAnswer(i, ok)

\* the page with the user free to leave it at any moment
SpecTeardown == Init /\ [][NextTeardown]_vars

----------------------------------------------------------------------------
(* The page with a user who also types whitespace into the name input *)

NextBlank ==
    \/ Next
    \/ \E v \in BlankNames : SetPatientName(v)

SpecBlank == Init /\ [][NextBlank]_vars

----------------------------------------------------------------------------
(* Navigation.  The route is /booking/:id, so a navigation to the booking   *)
(* page of another dentist keeps the component mounted with all its state   *)
(* cells and changes only useParams().id; the effect on [id] (lines         *)
(* 201-203) then calls loadDentist again.                                   *)

\* the route's id changes: loadDentist up to its await (lines 211-214)
ChangeRoute(newId) ==
    /\ mounted
    /\ id # NoId
    /\ newId # id
    /\ BagCardinality(dentistReqs) < MaxPendingDentists
    /\ BagCardinality(slotReqs) < MaxPendingSlots
    /\ id' = newId
    /\ dentistReqs' = dentistReqs (+) SetToBag({newId})
    /\ UNCHANGED <<PatientsCells, now, mounted, Cells, lastToast, slotReqs, bookReqs, slotsFor>>

\* the steps of a visitor who chooses a service, a date and a time, and
\* navigates; the contact inputs and the submission are left aside
NextRoute ==
    \/ \E newId \in DentistIds \cup OtherDentistIds : ChangeRoute(newId)
    \/ \E r \in DentistIds \cup OtherDentistIds : DentistLoaded(r)
    \/ \E r \in DentistIds \cup OtherDentistIds : DentistFailed(r)
    \/ \E r \in BagToSet(slotReqs), slots \in SlotLists : SlotsLoaded(r, slots)
    \/ \E r \in BagToSet(slotReqs) : SlotsFailed(r)
    \/ \E date \in CalendarDays : SelectDate(date)
    \/ \E slot \in Range(availableSlots) : SelectTime(slot)
    \/ \E d \in DentistIds \cup OtherDentistIds : \E i \in 1..Len(Services(d)) :
          SelectService(Services(d)[i].id)

\* the page with a visitor who navigates between the pages of two dentists
SpecRoute == Init /\ [][NextRoute]_vars

----------------------------------------------------------------------------
(* PatientsPage (PatientsPage.tsx, lines 24-68).  Its strings are           *)
(* sequences of characters, so that toLowerCase and includes are computed.  *)

\* BookingPage is not open
BookingClosed ==
    /\ id = NoId
    /\ mounted = FALSE
    /\ dentist = Null
    /\ selectedDate = Undefined
    /\ selectedTime = ""
    /\ selectedService = ""
    /\ availableSlots = <<>>
    /\ isLoading = TRUE
    /\ isBooking = FALSE
    /\ showSuccess = FALSE
    /\ patientName = ""
    /\ patientPhone = ""
    /\ patientEmail = ""
    /\ notes = ""
    /\ dentistReqs = EmptyBag
    /\ slotReqs = EmptyBag
    /\ bookReqs = <<>>
    /\ slotsFor = Undefined

\* the state of BookingPage
BookingCells ==
    <<id, mounted, Cells, dentistReqs, slotReqs, bookReqs, slotsFor>>

\* String.prototype.toLowerCase, on one character and on a string
ToLowerChar(c) ==
    CASE c = "A" -> "a"
      [] c = "B" -> "b"
      [] c = "C" -> "c"
      [] OTHER -> c
toLowerCase(s) == [i \in 1..Len(s) |-> ToLowerChar(s[i])]

\* String.prototype.includes
includes(s, q) ==
    \E i \in 1..(Len(s) - Len(q) + 1) : SubSeq(s, i, i + Len(q) - 1) = q

\* the patients api.getPatients may return: name, phone, optional email
PatientPool ==
    {[id |-> "p1", name |-> <<"A", "l">>, phone |-> <<"0", "6">>, email |-> Undefined],
     [id |-> "p2", name |-> <<"B", "o">>, phone |-> <<"0", "7">>,
      email |-> Some(<<"A", "@", "l">>)],
     [id |-> "p3", name |-> <<"C", "y">>, phone |-> <<"6", "A">>, email |-> Undefined]}

\* the sequences over S of length n, and those without a repeated element
SeqsOfLen(S, n) == [1..n -> S]
Distinct(s) == \A i, j \in 1..Len(s) : i # j => s[i] # s[j]

\* what api.getPatients may resolve to
PatientLists ==
    {s \in UNION {SeqsOfLen(PatientPool, n) : n \in 0..MaxPatients} : Distinct(s)}

\* what the user may type into the search box
QueryChars == {"a", "A", "l", "6"}
Queries == UNION {SeqsOfLen(QueryChars, n) : n \in 0..MaxQueryLen}

\* the predicate of patients.filter (lines 39-42)
Matches(p, q) ==
    \/ includes(toLowerCase(p.name), toLowerCase(q))
    \/ includes(p.phone, q)
    \/ (p.email # Undefined /\ includes(toLowerCase(p.email[1]), toLowerCase(q)))

\* the filter effect (lines 36-48): the value it gives filteredPatients
FilterEffect(list, q) ==
    IF q # <<>>
    THEN SelectSeq(list, LAMBDA p : Matches(p, q))
    ELSE list

\* the first render of PatientsPage and the effects of the mount: loadPatients
\* (lines 50-53) issues its call if there is a dentist, the filter effect
\* copies the empty patients
InitPatients ==
    /\ BookingClosed
    /\ now \in NowValues
    /\ lastToast = ToastNone
    /\ authDentist \in {Null} \cup DentistIds
    /\ patients = <<>>
    /\ searchQuery = <<>>
    /\ filteredPatients = FilterEffect(patients, searchQuery)
    /\ patientsIsLoading = TRUE
    /\ patientReqs = IF authDentist = Null THEN 0 ELSE 1
    /\ patient = NoAppointments
    /\ nextApt = Undefined

\* the AuthContext gets its dentist: the effect on [dentist] (lines 32-34)
\* calls loadPatients again
AuthResolved(d) ==
    /\ authDentist = Null
    /\ authDentist' = d
    /\ patientReqs' = patientReqs + 1
    /\ UNCHANGED <<BookingCells, now, lastToast, patients, filteredPatients,
                   searchQuery, patientsIsLoading, patient, nextApt>>

\* the search box's onChange (line 95), then the filter effect
SetSearchQuery(q) ==
    /\ q # searchQuery
    /\ searchQuery' = q
    /\ filteredPatients' = FilterEffect(patients, q)
    /\ UNCHANGED <<BookingCells, now, lastToast, authDentist, patients,
                   patientsIsLoading, patientReqs, patient, nextApt>>

\* PatientsLoaded without the filter effect running after it
PatientsLoadedNoRefilter(data) ==
    /\ patientReqs > 0
    /\ patientReqs' = patientReqs - 1
    /\ patients' = data
    /\ filteredPatients' = data
    /\ patientsIsLoading' = FALSE
    /\ UNCHANGED <<BookingCells, now, lastToast, authDentist, searchQuery,
                   patient, nextApt>>

\* loadPatients after its await, the call resolved (lines 54-55, 59): both
\* cells are set to data; patients has changed, so the filter effect runs
\* after the render and sets filteredPatients again
PatientsLoaded(data) ==
    /\ patientReqs > 0
    /\ patientReqs' = patientReqs - 1
    /\ patients' = data
    /\ filteredPatients' = FilterEffect(data, searchQuery)
    /\ patientsIsLoading' = FALSE
    /\ UNCHANGED <<BookingCells, now, lastToast, authDentist, searchQuery,
                   patient, nextApt>>

\* loadPatients after its await, the call rejected (lines 56-59)
PatientsFailed ==
    /\ patientReqs > 0
    /\ patientReqs' = patientReqs - 1
    /\ lastToast' = ToastPatientsError
    /\ patientsIsLoading' = FALSE
    /\ UNCHANGED <<BookingCells, now, authDentist, patients, filteredPatients,
                   searchQuery, patient, nextApt>>

NextPatients ==
    \/ \E d \in DentistIds : AuthResolved(d)
    \/ \E q \in Queries : SetSearchQuery(q)
    \/ \E data \in PatientLists : PatientsLoaded(data)
    \/ PatientsFailed

SpecPatients == InitPatients /\ [][NextPatients]_vars

----------------------------------------------------------------------------
(* getNextAppointment (PatientsPage.tsx, lines 63-68), called for every row *)
(* of the table (line 122)                                                  *)

\* the appointments a patient may have: a date before, at or after now, and
\* a status; two ids, so that two appointments can share a date
AptIds == {"a1", "a2"}
AptDates == CalendarDays \cup NowValues
AptStatuses == {"scheduled", "cancelled"}
AptPool ==
    {[id |-> i, date |-> d, status |-> st] :
        i \in AptIds, d \in AptDates, st \in AptStatuses}

\* the patients whose row may be rendered
AptPatients ==
    {[id |-> "p1", appointments |-> apts] :
        apts \in UNION {SeqsOfLen(AptPool, n) : n \in 0..MaxApts}}

\* x put into the sorted s after the elements that do not compare greater
InsertByDate(x, s) ==
    LET k == Cardinality({i \in 1..Len(s) : ~Before(x.date, s[i].date)})
    IN SubSeq(s, 1, k) \o <<x>> \o SubSeq(s, k + 1, Len(s))

\* Array.prototype.sort with (a, b) => a.date.getTime() - b.date.getTime()
\* (line 66): ascending, and stable
RECURSIVE SortByDate(_)
SortByDate(s) ==
    IF s = <<>> THEN <<>>
    ELSE InsertByDate(s[Len(s)], SortByDate(SubSeq(s, 1, Len(s) - 1)))

\* getNextAppointment without the sort
getNextAppointmentUnsorted(p) ==
    LET upcoming ==
            SelectSeq(p.appointments,
                      LAMBDA apt : ~Before(apt.date, now) /\ apt.status # "cancelled")
    IN IF upcoming = <<>> THEN Undefined ELSE Some(upcoming[1])

\* getNextAppointment (lines 63-68): upcoming[0], undefined for an empty array
getNextAppointment(p) ==
    LET upcoming ==
            SortByDate(SelectSeq(p.appointments,
                LAMBDA apt : ~Before(apt.date, now) /\ apt.status # "cancelled"))
    IN IF upcoming = <<>> THEN Undefined ELSE Some(upcoming[1])

\* the page with a patient loaded, before the table's rows are rendered
InitNextAppointment ==
    /\ BookingClosed
    /\ now \in NowValues
    /\ lastToast = ToastNone
    /\ authDentist \in DentistIds
    /\ patients \in {<<p>> : p \in AptPatients}
    /\ filteredPatients = patients
    /\ searchQuery = <<>>
    /\ patientsIsLoading = FALSE
    /\ patientReqs = 0
    /\ patient = NoAppointments
    /\ nextApt = getNextAppointment(patient)

\* the i-th row of the table is rendered (lines 121-122)
RenderRow(i) ==
    /\ ~patientsIsLoading
    /\ i \in 1..Len(filteredPatients)
    /\ patient' = filteredPatients[i]
    /\ nextApt' = getNextAppointment(filteredPatients[i])
    /\ UNCHANGED <<BookingCells, now, lastToast, authDentist, patients,
                   filteredPatients, searchQuery, patientsIsLoading, patientReqs>>

NextNextAppointment == \E i \in 1..Len(filteredPatients) : RenderRow(i)

SpecNextAppointment == InitNextAppointment /\ [][NextNextAppointment]_vars

----------------------------------------------------------------------------
(* Vocabulary of the properties *)

\* the required fields of a draft are all present (the gate as the design states it)
canSubmit(d) ==
    /\ d.dentist # Null
    /\ d.selectedService # ""
    /\ d.selectedDate # Undefined
    /\ d.selectedTime # ""
    /\ d.patientName # ""
    /\ d.patientPhone # ""

\* the (providerId, date) of the draft, when it has both
CurrentKey ==
    IF dentist # Null /\ selectedDate # Undefined
    THEN Some(SlotRequest(dentist, selectedDate[1]))
    ELSE Undefined

\* the submit button is there and enabled
ButtonEnabled == FormRendered /\ ~ButtonDisabled(isBooking, Draft)

----------------------------------------------------------------------------
\* C1: a slot response whose (providerId, date) is not the draft's current
\* (providerId, date) when it arrives changes neither availableSlots nor
\* selectedTime.
C1_StaleResponseDiscarded ==
    [][\A r \in BagToSet(slotReqs) :
          (slotReqs' = slotReqs (-) SetToBag({r}) /\ CurrentKey # Some(r))
              => (availableSlots' = availableSlots /\ selectedTime' = selectedTime)]_vars

\* C2: every step that selects another date leaves no time selected.
C2_DateChangeClearsTime ==
    [][(selectedDate' # selectedDate /\ selectedDate' # Undefined)
          => selectedTime' = ""]_vars

\* C3: the handleBooking guard passes exactly when the six required fields are
\* present, whatever patientEmail and notes hold, and when no submission is in
\* flight the submit button is enabled exactly when the guard passes.
C3_SubmitGate ==
    /\ ~GuardRejects(Draft) <=> canSubmit(Draft)
    /\ \A e \in Emails, n \in NotesValues :
          LET d == [Draft EXCEPT !.patientEmail = e, !.notes = n]
          IN /\ GuardRejects(d) = GuardRejects(Draft)
             /\ ButtonDisabled(isBooking, d) = ButtonDisabled(isBooking, Draft)
    /\ ~isBooking => (ButtonEnabled <=> ~GuardRejects(Draft))

\* C3 witness: the gate is open with the optional fields empty.
C3_Witness ==
    /\ ButtonEnabled
    /\ ~GuardRejects(Draft)
    /\ patientEmail = ""
    /\ notes = ""

\* C4: at most one bookAppointment call is outstanding, and isBooking is set
\* exactly while one is.
C4_AtMostOneInFlight ==
    /\ Len(bookReqs) <= 1
    /\ isBooking <=> Len(bookReqs) = 1

\* C4 witness: a call is outstanding while the draft would pass the guard again.
C4_Witness ==
    /\ Len(bookReqs) = 1
    /\ isBooking
    /\ ~GuardRejects(Draft)
    /\ Interactive

\* C5: the step in which bookAppointment rejects changes no draft field and
\* not the visible slots, releases isBooking, leaves the success dialog closed
\* and, if the draft passed the guard, leaves the submit button enabled; the
\* click that started the attempt changed no draft field and no slot either.
C5_FailureKeepsDraft ==
    [][/\ (\E i \in 1..Len(bookReqs) : BookingFailed(i))
            => /\ Draft' = Draft
               /\ availableSlots' = availableSlots
               /\ ~isBooking'
               /\ ~showSuccess'
               /\ bookReqs' = <<>>
               /\ (~GuardRejects(Draft) => ButtonEnabled' /\ Interactive')
       /\ ClickSubmit => (Draft' = Draft /\ availableSlots' = availableSlots)]_vars

\* C5 witness: a submission has failed and the draft can be sent again as it is.
C5_Witness ==
    /\ lastToast = ToastBookingError
    /\ ~isBooking
    /\ bookReqs = <<>>
    /\ ButtonEnabled
    /\ Interactive
    /\ patientEmail # ""
    /\ notes # ""

\* the required fields of a bookAppointment payload are all present
PayloadComplete(p) ==
    /\ p.dentistId # Null
    /\ p.serviceId # ""
    /\ p.time # ""
    /\ p.patientName # ""
    /\ p.patientPhone # ""

\* C6: a bookAppointment call is issued only by a step taken with the required
\* fields all present, that step sends the draft as it is, and whenever
\* isBooking is set the call outstanding carries all the required fields; a
\* step taken with a required field missing issues no call.
C6_OnlyThroughGate ==
    [][/\ Len(bookReqs') > Len(bookReqs)
            => /\ canSubmit(Draft)
               /\ bookReqs' = Append(bookReqs, Payload)
               /\ Draft' = Draft
               /\ availableSlots' = availableSlots
       /\ ~canSubmit(Draft) => ((isBooking' => isBooking) /\ Len(bookReqs') <= Len(bookReqs))
       /\ isBooking' => /\ bookReqs' # <<>>
                        /\ \A i \in 1..Len(bookReqs') : PayloadComplete(bookReqs'[i])]_vars

\* C6 witness: a submission is in flight, started from a draft with every
\* required field and nothing optional.
C6_Witness ==
    /\ isBooking
    /\ Len(bookReqs) = 1
    /\ PayloadComplete(bookReqs[1])
    /\ bookReqs[1].patientEmail = Undefined
    /\ bookReqs[1].notes = Undefined

\* C7: once the success dialog is shown it stays shown, and no further
\* bookAppointment call is issued.
C7_ConfirmedTerminal ==
    [][showSuccess => (showSuccess' /\ Len(bookReqs') <= Len(bookReqs))]_vars

\* C8: while the success dialog is shown, the date, time, service and patient
\* name it displays do not change.
C8_SummaryFrozen ==
    [][(showSuccess /\ showSuccess') => Summary' = Summary]_vars

\* C9: a selected time is an element of availableSlots, and availableSlots is
\* the answer to the call made for the draft's current (dentist, date).
C9_TimeInCurrentSlots ==
    selectedTime # "" =>
        /\ CurrentKey # Undefined
        /\ slotsFor = CurrentKey
        /\ selectedTime \in Range(availableSlots)

\* C10: the step in which the getAvailableSlots call for the draft's current
\* (dentist, date) rejects leaves availableSlots and selectedTime as they
\* were and does not leave the slots of another (dentist, date) on display;
\* and every selection of a date issues a call for it.
C10_FailedFetchUnknown ==
    [][/\ \A r \in BagToSet(slotReqs) :
            (SlotsFailed(r) /\ CurrentKey = Some(r))
                => /\ availableSlots' = availableSlots
                   /\ selectedTime' = selectedTime
                   /\ (slotsFor' = Undefined \/ slotsFor' = CurrentKey')
       /\ (selectedDate' # selectedDate /\ selectedDate' # Undefined)
            => \E r \in BagToSet(slotReqs') :
                  /\ Some(r) = CurrentKey'
                  /\ CopiesIn(r, slotReqs') = CopiesIn(r, slotReqs) + 1]_vars


\* C11: no calendar day before today can be selected, and the selected date,
\* when set, is on today's calendar day or a later one.
C11_NoPastDate ==
    /\ \A date \in CalendarDays : date.day < now.day => ~ENABLED SelectDate(date)
    /\ selectedDate # Undefined => selectedDate[1].day >= now.day

\* C11 witness: the form is open with a past day in the calendar, and a later
\* day than the initial one has been selected.
C11_Witness ==
    /\ Interactive
    /\ \E date \in CalendarDays : date.day < now.day
    /\ selectedDate # Undefined
    /\ selectedDate[1].day > now.day

\* C12: the step that applies a slot answer leaves the time unset or among
\* the new slots; and while availableSlots is empty the time is unset, no
\* slot can be picked, the gate is closed, the submit button is disabled and
\* no bookAppointment call is issued.
C12_TimeWithinLoadedSlots ==
    [][/\ (\E r \in BagToSet(slotReqs), slots \in SlotLists : SlotsLoaded(r, slots))
            => (selectedTime' = "" \/ selectedTime' \in Range(availableSlots'))
       /\ availableSlots' = <<>>
            => /\ selectedTime' = ""
               /\ ~canSubmit(Draft')
               /\ ButtonDisabled(isBooking', Draft')
       /\ availableSlots = <<>>
            => /\ \A l \in SlotLists : \A slot \in Range(l) : ~ENABLED SelectTime(slot)
               /\ Len(bookReqs') <= Len(bookReqs)]_vars

\* C12 witness: an empty slot list has been loaded for the current date while
\* every other required field is filled in.
C12_Witness ==
    /\ slotsFor # Undefined
    /\ slotsFor = CurrentKey
    /\ availableSlots = <<>>
    /\ selectedService # ""
    /\ patientName # ""
    /\ patientPhone # ""
    /\ Interactive


Failed == ~isLoading /\ dentist = Null

\* C14: a rejected getDentist call leaves the page in Failed, and in Failed no
\* call is outstanding and no step is possible: nothing can issue a slot
\* fetch or a bookAppointment call.
C14_ProviderNotFoundTerminal ==
    /\ lastToast = ToastDentistError => Failed
    /\ Failed => /\ slotReqs = EmptyBag
                 /\ bookReqs = <<>>
                 /\ dentistReqs = EmptyBag
                 /\ ~ENABLED Next

\* C14 witness: the getDentist call was rejected.
C14_Witness ==
    /\ Failed
    /\ lastToast = ToastDentistError
    /\ id # NoId


\* a string that is empty or holds only whitespace
Blank(v) == v \in {"", " "}

\* C15: with a blank patientName or patientPhone the guard rejects and the
\* submit button is disabled, and no bookAppointment call carries a blank
\* name or phone.
C15_BlankBlocksSubmission ==
    /\ (Blank(patientName) \/ Blank(patientPhone))
          => (GuardRejects(Draft) /\ ~ButtonEnabled)
    /\ \A i \in 1..Len(bookReqs) :
          ~Blank(bookReqs[i].patientName) /\ ~Blank(bookReqs[i].patientPhone)


\* everything but the six fields the user edits besides the date
NotEdited ==
    <<id, now, mounted, dentist, selectedDate, availableSlots, isLoading,
      isBooking, showSuccess, lastToast, dentistReqs, slotReqs, bookReqs,
      slotsFor>>

\* C16: a step issues a getAvailableSlots call exactly when it changes
\* selectedDate or dentist and leaves both set; a step that changes the
\* service, picks a time or changes the name, phone, email or notes changes
\* nothing else.
C16_FetchOnlyOnDateOrDentist ==
    [][/\ BagCardinality(slotReqs') > BagCardinality(slotReqs)
            <=> /\ selectedDate' # selectedDate \/ dentist' # dentist
                /\ selectedDate' # Undefined
                /\ dentist' # Null
       /\ selectedService' # selectedService
            => UNCHANGED <<NotEdited, selectedTime, patientName, patientPhone,
                           patientEmail, notes>>
       /\ (selectedTime' # selectedTime /\ selectedTime' # "")
            => UNCHANGED <<NotEdited, selectedService, patientName,
                           patientPhone, patientEmail, notes>>
       /\ patientName' # patientName
            => UNCHANGED <<NotEdited, selectedService, selectedTime,
                           patientPhone, patientEmail, notes>>
       /\ patientPhone' # patientPhone
            => UNCHANGED <<NotEdited, selectedService, selectedTime,
                           patientName, patientEmail, notes>>
       /\ patientEmail' # patientEmail
            => UNCHANGED <<NotEdited, selectedService, selectedTime,
                           patientName, patientPhone, notes>>
       /\ notes' # notes
            => UNCHANGED <<NotEdited, selectedService, selectedTime,
                           patientName, patientPhone, patientEmail>>]_vars

\* C16 witness: every field has been edited since the slots of the current
\* date were loaded, and no call is outstanding.
C16_Witness ==
    /\ Interactive
    /\ slotsFor # Undefined
    /\ slotsFor = CurrentKey
    /\ slotReqs = EmptyBag
    /\ selectedService # ""
    /\ selectedTime # ""
    /\ patientName # ""
    /\ patientPhone # ""
    /\ patientEmail # ""
    /\ notes # ""
    /\ ~isBooking
    /\ lastToast = ToastNone


\* C17: the no-availability message is on screen only when availableSlots is
\* the empty answer to a call made for the draft's current (dentist, date).
C17_NoAvailabilityOnlyWhenLoaded ==
    NoSlotsMessage => (slotsFor # Undefined /\ slotsFor = CurrentKey)


\* the summary of a bookAppointment payload: its date, time, the name of its
\* service and its patient
SummaryOf(p) ==
    LET hits == {i \in 1..Len(Services(p.dentistId)) :
                    Services(p.dentistId)[i].id = p.serviceId}
    IN [date |-> Some(p.date),
        time |-> p.time,
        service |-> IF hits = {} THEN Undefined
                    ELSE Some(Services(p.dentistId)[CHOOSE i \in hits : TRUE].name),
        patient |-> p.patientName]

\* C18: when a bookAppointment call resolves, the success dialog it opens
\* shows the date, time, service and patient name that call carried.
C18_SummaryShowsWhatWasBooked ==
    [][\A i \in 1..Len(bookReqs) :
          BookingSucceeded(i) => Summary' = SummaryOf(bookReqs[i])]_vars


\* C19: a submission in flight is over in the end; the step that ends it
\* resets isBooking whatever the outcome, and the success dialog opens in
\* that step exactly when the call resolved.
C19_SubmissionResolves ==
    /\ isBooking ~> ~isBooking
    /\ [][/\ \A i \in 1..Len(bookReqs) :
               /\ BookingSucceeded(i) => (~isBooking' /\ showSuccess')
               /\ BookingFailed(i) => (~isBooking' /\ ~showSuccess')
          /\ (showSuccess' /\ ~showSuccess)
               => \E i \in 1..Len(bookReqs) : BookingSucceeded(i)]_vars

\* C19 witness: a submission has resolved and the success dialog is open.
C19_Witness ==
    /\ showSuccess
    /\ ~isBooking
    /\ bookReqs = <<>>
    /\ lastToast = ToastBooked
    /\ mounted

\* C20: loading is over in the end.
C20_LoadingEnds == <>(~isLoading)


\* the ids of the services the loaded dentist offers
ServiceIdsOfLoaded == {Services(dentist)[i].id : i \in 1..Len(Services(dentist))}

\* C21: a loaded dentist is never replaced, and the selected service, when
\* set, is a service of the loaded dentist, also when the route's id changes
\* and the getDentist calls are answered in any order.
C21_ProviderFixedServiceBelongs ==
    /\ [][dentist # Null => dentist' = dentist]_vars
    /\ [](selectedService # "" => selectedService \in ServiceIdsOfLoaded)


\* the calendar's cell of today's date
TodayCell == DateOf(now.day, 0)

\* C22: whatever the time of day, the calendar does not disable today's
\* date, and whenever the form is open with another date or none selected,
\* today's date can be selected.
C22_TodaySelectable ==
    /\ FormRendered => ~DayDisabled(TodayCell)
    /\ (/\ Interactive
        /\ BagCardinality(slotReqs) < MaxPendingSlots
        /\ (selectedDate = Undefined \/ ~SameDay(selectedDate[1], now)))
          => ENABLED SelectDate(TodayCell)



\* s contains q, comparing character by character, with or without case
Contains(s, q) ==
    \E i \in 0..(Len(s) - Len(q)) : \A k \in 1..Len(q) : s[i + k] = q[k]
ContainsIgnoringCase(s, q) ==
    \E i \in 0..(Len(s) - Len(q)) :
        \A k \in 1..Len(q) : ToLowerChar(s[i + k]) = ToLowerChar(q[k])

\* the patient is one the search for q is to show
Wanted(p, q) ==
    \/ ContainsIgnoringCase(p.name, q)
    \/ (p.email # Undefined /\ ContainsIgnoringCase(p.email[1], q))
    \/ Contains(p.phone, q)

\* the patients of list that the search for q is to show, in the order of list
RECURSIVE Shown(_, _)
Shown(list, q) ==
    IF list = <<>> THEN <<>>
    ELSE IF Wanted(Head(list), q)
         THEN <<Head(list)>> \o Shown(Tail(list), q)
         ELSE Shown(Tail(list), q)

\* C23: filteredPatients is exactly the patients whose name or email
\* contains the query without regard to case or whose phone contains it, in
\* the order of patients; with an empty query it is patients; and the step
\* in which the getPatients call resolves leaves the answer filtered by the
\* query typed before.
C23_SearchShowsMatches ==
    /\ [](filteredPatients = Shown(patients, searchQuery))
    /\ [](searchQuery = <<>> => filteredPatients = patients)
    /\ [][\A data \in PatientLists :
             PatientsLoaded(data) => filteredPatients' = Shown(data, searchQuery)]_vars

\* C23 witness: a query was typed, two patients are loaded and the list
\* shows the one of them that matches.
C23_Witness ==
    /\ searchQuery # <<>>
    /\ ~patientsIsLoading
    /\ Len(patients) = 2
    /\ Len(filteredPatients) = 1
    /\ filteredPatients[1] = patients[2]
    /\ patientReqs = 0



\* the appointments of p that are not cancelled and not before now, by index
Eligible(p) ==
    {i \in 1..Len(p.appointments) :
        /\ p.appointments[i].status # "cancelled"
        /\ ~Before(p.appointments[i].date, now)}

\* C24: getNextAppointment returns nothing exactly when the patient has no
\* appointment that is neither cancelled nor before now, and otherwise one
\* of those appointments, with no other of them earlier.
C24_NextAppointmentEarliest ==
    /\ nextApt = Undefined <=> Eligible(patient) = {}
    /\ nextApt # Undefined =>
          \E i \in Eligible(patient) :
              /\ nextApt[1] = patient.appointments[i]
              /\ \A j \in Eligible(patient) :
                    ~Before(patient.appointments[j].date, nextApt[1].date)

\* C24 witness: the appointment returned is the last of three, after a
\* cancelled one that is not later and a later one that is not cancelled.
C24_Witness ==
    /\ Len(patient.appointments) = 3
    /\ nextApt # Undefined
    /\ nextApt[1] = patient.appointments[3]
    /\ patient.appointments[1].status = "cancelled"
    /\ ~Before(patient.appointments[1].date, now)
    /\ ~Before(nextApt[1].date, patient.appointments[1].date)
    /\ patient.appointments[2].status # "cancelled"
    /\ Before(nextApt[1].date, patient.appointments[2].date)

====
